---------------------------- MODULE Spec2Model ----------------------------
(***************************************************************************)
(* Model of the HDC gesture recognizer of src/src/lib/hdc.ts               *)
(* (class HDCGestureRecognizer): configuration, item memory, class store,  *)
(* encoder, classifier and serializer.                                     *)
(*                                                                         *)
(* Numbers.  Hypervector elements, prototypes and counters are small       *)
(* integers.  The normalized features of extractFeatures are kept exactly  *)
(* as signed square roots of rationals, s * sqrt(p / q), so that every     *)
(* comparison the code makes on them is decided in integer arithmetic.     *)
(* Cosine similarities and the threshold are IEEE-754 doubles, computed    *)
(* bit for bit as Math.sqrt, * and / round them.                           *)
(***************************************************************************)
EXTENDS Integers, Sequences, FiniteSets, TLC

VARIABLES
    dim,         \* HDCGestureRecognizer.dim
    numBins,     \* HDCGestureRecognizer.numBins
    threshold,   \* HDCGestureRecognizer.threshold
    featureHVs,  \* HDCGestureRecognizer.featureHVs : Map "i:b" -> Float32Array
    classes,     \* HDCGestureRecognizer.classes : insertion-ordered Map
    rng,         \* HDCGestureRecognizer.rng : state of the constructor's SeededRandom
    last,        \* the last call or event: its arguments and outcome
    mode,              \* GestureDemo: useState<AppMode>
    prediction,        \* GestureDemo: useState<PredictionResult | null>
    trainingState,     \* GestureDemo: useState<TrainingState>
    gestureNames,      \* GestureDemo: useState<string[]>
    currentLandmarks,  \* GestureDemo: useState<Landmark[] | null>
    captured,          \* the examples captured since the last confirmGestureName
    state,         \* useHandTracking: useState<HandTrackingState>
    handsRef,      \* useHandTracking: the effect run whose Hands it holds, 0 for null
    animationRef,  \* useHandTracking: the effect run whose frame id it holds, 0 for null
    streamRef,     \* useHandTracking: the effect run whose stream it holds, 0 for null
    videoRef,      \* the video element, Null once the component is unmounted
    mounted,       \* per run of the effect: its variable mounted
    pc,            \* per run of the effect: where initializeHandTracking stands
    hands,         \* per run of the effect: its Hands instance
    stream,        \* per run of the effect: its MediaStream
    sendTo,        \* per run of the effect: the run whose Hands its send went to
    frames,        \* the effect runs with a pending animation frame
    event          \* the last step of the hook: what it did, in which run's code

\* the state of the component GestureDemo around its recognizer
demoVars == <<mode, prediction, trainingState, gestureNames, currentLandmarks, captured>>

\* the state of the React side: component and hook
\* the state of the hook useHandTracking
trackVars ==
    <<state, handsRef, animationRef, streamRef, videoRef, mounted, pc, hands, stream,
      sendTo, frames, event>>

hookVars == <<demoVars, trackVars>>

vars == <<dim, numBins, threshold, featureHVs, classes, rng, last, hookVars>>

-----------------------------------------------------------------------------
(* Bounds of the model *)

\* length of the hypervectors a recognizer is constructed with
D == 2
\* a class receives at most this many examples through addExample
MaxExamples == 2
\* addExample creates a class only in a store of fewer classes than this
MaxClasses == 2
\* captureExample of GestureDemo adds an example only to a class of fewer
\* examples than this
MaxCount == 6
\* the effect of useHandTracking runs at most this many times
MaxEffects == 2

-----------------------------------------------------------------------------
(* Sequence helpers *)

Sign(a) == IF a < 0 THEN -1 ELSE IF a > 0 THEN 1 ELSE 0

\* s[lo] + ... + s[hi], by halves
RECURSIVE SumRange(_, _, _)
SumRange(s, lo, hi) ==
    IF lo > hi THEN 0
    ELSE IF lo = hi THEN s[lo]
    ELSE SumRange(s, lo, (lo + hi) \div 2) + SumRange(s, (lo + hi) \div 2 + 1, hi)

SumSeq(s) == SumRange(s, 1, Len(s))

\* element i (0-based) of a typed array or list; reading past the end is undefined
HasIndex(a, i) == i >= 0 /\ i < Len(a)

At(a, i) == a[i + 1]

\* new Float32Array(n): n zeros
ZeroArray(n) == [i \in 1..n |-> 0]

RemoveAt(s, k) == [i \in 1..(Len(s) - 1) |-> IF i < k THEN s[i] ELSE s[i + 1]]

InsertAt(s, k, e) ==
    [i \in 1..(Len(s) + 1) |-> IF i < k THEN s[i] ELSE IF i = k THEN e ELSE s[i - 1]]

-----------------------------------------------------------------------------
(* Strings.  A string is the sequence of its characters. *)

LowerLetters ==
    <<"a","b","c","d","e","f","g","h","i","j","k","l","m",
      "n","o","p","q","r","s","t","u","v","w","x","y","z">>

UpperLetters ==
    <<"A","B","C","D","E","F","G","H","I","J","K","L","M",
      "N","O","P","Q","R","S","T","U","V","W","X","Y","Z">>

Digits == <<"0","1","2","3","4","5","6","7","8","9">>

\* the upper-case letter of every lower-case letter
UpperMap ==
    [c \in {LowerLetters[i] : i \in 1..26} |->
        UpperLetters[CHOOSE i \in 1..26 : LowerLetters[i] = c]]

UpperChar(c) == IF c \in DOMAIN UpperMap THEN UpperMap[c] ELSE c

\* String.prototype.toUpperCase
toUpperCase(s) == [i \in 1..Len(s) |-> UpperChar(s[i])]

IsDigit(c) == \E i \in 1..10 : Digits[i] = c

DigitVal(c) == (CHOOSE i \in 1..10 : Digits[i] = c) - 1

RECURSIVE NumVal(_)
NumVal(s) ==
    IF s = <<>> THEN 0
    ELSE NumVal(SubSeq(s, 1, Len(s) - 1)) * 10 + DigitVal(s[Len(s)])

\* An own property key that is a canonical array index ("0", "2", "10", not
\* "02"): such keys are enumerated first, in ascending numeric order.
IsArrayIndex(s) ==
    /\ Len(s) >= 1
    /\ Len(s) <= 9
    /\ \A i \in 1..Len(s) : IsDigit(s[i])
    /\ (Len(s) > 1 => s[1] # "0")

-----------------------------------------------------------------------------
(* Plain JavaScript objects used as records keyed by string: the sequence   *)
(* of own properties <<key, value>> in enumeration order.                   *)

EmptyObject == <<>>

ObjectHas(obj, key) == \E i \in 1..Len(obj) : obj[i].key = key

ObjectPos(obj, key) == CHOOSE i \in 1..Len(obj) : obj[i].key = key

\* position at which a new key enters the enumeration order
ObjectSlot(obj, key) ==
    IF IsArrayIndex(key)
    THEN 1 + Cardinality({i \in 1..Len(obj) :
                 IsArrayIndex(obj[i].key) /\ NumVal(obj[i].key) < NumVal(key)})
    ELSE Len(obj) + 1

\* obj[key] = value
ObjectSet(obj, key, value) ==
    IF ObjectHas(obj, key)
    THEN [obj EXCEPT ![ObjectPos(obj, key)] = [key |-> key, value |-> value]]
    ELSE InsertAt(obj, ObjectSlot(obj, key), [key |-> key, value |-> value])

\* Object.entries(obj)
ObjectEntries(obj) == obj

-----------------------------------------------------------------------------
(* Insertion-ordered Map<string, GestureClass>: the sequence of its values, *)
(* each carrying its key in the field name.                                 *)

MapHas(m, key) == \E i \in 1..Len(m) : m[i].name = key

MapPos(m, key) == CHOOSE i \in 1..Len(m) : m[i].name = key

MapGet(m, key) == m[MapPos(m, key)]

\* Map.set: an existing key keeps its place, a new key goes last
MapSet(m, key, value) ==
    IF MapHas(m, key) THEN [m EXCEPT ![MapPos(m, key)] = value]
    ELSE Append(m, value)

\* Map.delete, the map afterwards
MapDelete(m, key) == IF MapHas(m, key) THEN RemoveAt(m, MapPos(m, key)) ELSE m

\* Array.from(Map.keys())
MapKeys(m) == [i \in 1..Len(m) |-> m[i].name]

-----------------------------------------------------------------------------
(* Real values.  [k |-> "num", s, p, q] is the real s * sqrt(p / q) with    *)
(* s in {-1, 0, 1} and p / q in lowest terms; NaN and -Infinity are the     *)
(* IEEE values of the same names.                                           *)

RECURSIVE GCD(_, _)
GCD(a, b) == IF b = 0 THEN a ELSE GCD(b, a % b)

NaN == [k |-> "nan"]

NegInfinity == [k |-> "ninf"]

Zero == [k |-> "num", s |-> 0, p |-> 0, q |-> 1]

\* s * sqrt(p / q), q > 0
Surd(s, p, q) ==
    IF s = 0 \/ p = 0 THEN Zero
    ELSE [k |-> "num", s |-> s, p |-> p \div GCD(p, q), q |-> q \div GCD(p, q)]

\* the rational a / b, b > 0
Rational(a, b) == Surd(Sign(a), a * a, b * b)

-----------------------------------------------------------------------------
(* IEEE-754 doubles.  cosineSimilarity computes its quotient with           *)
(* Math.sqrt, * and / on doubles, each correctly rounded to 53 significant  *)
(* bits (round to nearest, ties to even).  A nonzero double is              *)
(* [k |-> "dbl", s, m, e], the number s * m * 2^e with s in {-1, 1} and     *)
(* 2^52 <= m < 2^53; m and the wider intermediate results are naturals of   *)
(* up to 120 bits, little-endian tuples of 15-bit limbs.  The double 0 is   *)
(* Zero.                                                                    *)

Radix == 2^15

\* a function on 1..n as a tuple
Tuple(f, n) == SubSeq(f, 1, n)

BigOfInt(a, n) == Tuple([i \in 1..n |-> IF i = 1 THEN a ELSE 0], n)

BigPow2(b, n) == Tuple([i \in 1..n |-> IF i = b \div 15 + 1 THEN 2^(b % 15) ELSE 0], n)

BigBit(x, b) == (x[b \div 15 + 1] \div 2^(b % 15)) % 2

BigResize(x, n) == Tuple([i \in 1..n |-> IF i <= Len(x) THEN x[i] ELSE 0], n)

RECURSIVE BigAddFrom(_, _, _, _)
BigAddFrom(x, y, i, carry) ==
    IF i > Len(x) THEN <<>>
    ELSE LET t == x[i] + y[i] + carry
         IN  <<t % Radix>> \o BigAddFrom(x, y, i + 1, t \div Radix)

\* x + y, of the length of x
BigAdd(x, y) == BigAddFrom(x, y, 1, 0)

RECURSIVE BigSubFrom(_, _, _, _)
BigSubFrom(x, y, i, borrow) ==
    IF i > Len(x) THEN <<>>
    ELSE LET t == x[i] - y[i] - borrow
         IN  <<t % Radix>> \o BigSubFrom(x, y, i + 1, IF t < 0 THEN 1 ELSE 0)

\* x - y for x >= y
BigSub(x, y) == BigSubFrom(x, y, 1, 0)

RECURSIVE BigGeqFrom(_, _, _)
BigGeqFrom(x, y, i) ==
    IF i = 0 THEN TRUE
    ELSE IF x[i] # y[i] THEN x[i] > y[i]
    ELSE BigGeqFrom(x, y, i - 1)

\* x >= y for x and y of one length
BigGeq(x, y) == BigGeqFrom(x, y, Len(x))

\* x shifted right by b bits
BigShiftRight(x, b) ==
    LET limb(i) == IF i <= Len(x) THEN x[i] ELSE 0
        limbs == b \div 15
        bits == b % 15
    IN  Tuple([i \in 1..Len(x) |->
                  limb(i + limbs) \div 2^bits
                  + (limb(i + limbs + 1) % 2^bits) * 2^(15 - bits)], Len(x))

\* x times the limb c, one limb longer than x
RECURSIVE BigTimesLimbFrom(_, _, _, _)
BigTimesLimbFrom(x, c, i, carry) ==
    IF i > Len(x) THEN <<carry>>
    ELSE LET t == x[i] * c + carry
         IN  <<t % Radix>> \o BigTimesLimbFrom(x, c, i + 1, t \div Radix)

RECURSIVE BigTimesFrom(_, _, _)
BigTimesFrom(x, y, j) ==
    IF j > Len(y) THEN BigOfInt(0, 2 * Len(x))
    ELSE BigAdd(BigTimesFrom(x, y, j + 1),
                BigResize([i \in 1..(j - 1) |-> 0] \o BigTimesLimbFrom(x, y[j], 1, 0),
                          2 * Len(x)))

\* x * y, of twice the length of x
BigTimes(x, y) == BigTimesFrom(x, y, 1)

\* the double s * m * 2^e for 2^52 <= m <= 2^53
Double(s, m, e) ==
    IF m = BigPow2(53, 4) THEN [k |-> "dbl", s |-> s, m |-> BigPow2(52, 4), e |-> e + 1]
    ELSE [k |-> "dbl", s |-> s, m |-> m, e |-> e]

\* the double nearest to s * x * 2^e for 2^(52 + shift) <= x < 2^(53 + shift),
\* ties to even
Rounded(s, x, shift, e) ==
    LET m == BigResize(BigShiftRight(x, shift), 4)
        guard == BigBit(x, shift - 1) = 1
        sticky == \E b \in 0..(shift - 2) : BigBit(x, b) = 1
    IN  Double(s, IF guard /\ (sticky \/ m[1] % 2 = 1) THEN BigAdd(m, BigOfInt(1, 4))
                  ELSE m, e + shift)

\* the double 2^e
PowerOfTwo(e) == Double(1, BigPow2(52, 4), e - 52)

\* floor(log2(a)) for a >= 1
RECURSIVE Log2(_)
Log2(a) == IF a < 2 THEN 0 ELSE 1 + Log2(a \div 2)

\* the integer square root of num + res^2 / 4^(b + 1), bit by bit from bit b down
RECURSIVE IntSqrt(_, _, _)
IntSqrt(num, res, b) ==
    IF b < 0 THEN [res |-> res, num |-> num]
    ELSE LET t == BigAdd(res, BigPow2(b, 8))
         IN  IF BigGeq(num, t)
             THEN IntSqrt(BigSub(num, t), BigAdd(BigShiftRight(res, 1), BigPow2(b, 8)), b - 2)
             ELSE IntSqrt(num, BigShiftRight(res, 1), b - 2)

\* Math.sqrt(n) of an integer 1 <= n < 2^15
DoubleSqrt(n) ==
    LET j == (107 - Log2(n)) \div 2
        \* n * 4^j in [2^106, 2^108): its root has 54 bits
        scaled == BigResize([i \in 1..((2 * j) \div 15) |-> 0]
                            \o <<(n * 2^((2 * j) % 15)) % Radix,
                                 (n * 2^((2 * j) % 15)) \div Radix>>, 8)
        r == IntSqrt(scaled, BigOfInt(0, 8), 106)
        inexact == IF r.num = BigOfInt(0, 8) THEN 0 ELSE 1
    IN  Rounded(1, BigAdd(BigAdd(r.res, r.res), BigOfInt(inexact, 8)), 2, -1 - j)

\* x * y of two positive doubles
DoubleTimes(x, y) ==
    LET p == BigTimes(x.m, y.m)
    IN  Rounded(1, p, IF BigGeq(p, BigPow2(105, 8)) THEN 53 ELSE 52, x.e + y.e)

\* b more bits of the quotient of st.rem by d, for st.rem < 2 * d
RECURSIVE Quotient(_, _, _)
Quotient(st, d, b) ==
    IF b = 0 THEN st
    ELSE IF BigGeq(st.rem, d)
    THEN Quotient([q   |-> BigAdd(BigAdd(st.q, st.q), BigOfInt(1, 4)),
                   rem |-> BigAdd(BigSub(st.rem, d), BigSub(st.rem, d))], d, b - 1)
    ELSE Quotient([q |-> BigAdd(st.q, st.q), rem |-> BigAdd(st.rem, st.rem)], d, b - 1)

\* a / y of an integer 1 <= a < 2^8 and a positive double y
DoubleOver(a, y) ==
    LET lg == Log2(a)
        num == <<0, 0, 0, a * 2^(7 - lg)>>
        t == IF BigGeq(num, y.m) THEN 0 ELSE 1
        \* 55 bits of the quotient, and one more for what is left of it
        r == Quotient([q |-> BigOfInt(0, 4),
                       rem |-> IF t = 1 THEN BigAdd(num, num) ELSE num], y.m, 55)
        inexact == IF r.rem = BigOfInt(0, 4) THEN 0 ELSE 1
    IN  Rounded(1, BigAdd(BigAdd(r.q, r.q), BigOfInt(inexact, 4)), 3, lg - 107 - y.e - t)

\* the double 1
One == PowerOfTwo(0)

\* the squared norms and the dot products up to which the quotient of
\* cosineSimilarity is tabulated
MaxNorm == (D + 1) * MaxExamples * MaxExamples

MaxDot == (D + 1) * MaxExamples

\* Math.sqrt(n) for 1 <= n <= MaxNorm
Sqrts == Tuple([n \in 1..MaxNorm |-> DoubleSqrt(n)], MaxNorm)

\* dot / (Math.sqrt(normA) * Math.sqrt(normB)) for the small norms
\* (normA <= D + 1, normB <= MaxNorm, dot <= MaxDot), in the order of
\* SmallIndex; Zero where no vectors have that dot product
SmallIndex(dot, normA, normB) == ((dot - 1) * (D + 1) + (normA - 1)) * MaxNorm + normB

SmallQuotients ==
    Tuple([i \in 1..(MaxDot * (D + 1) * MaxNorm) |->
              LET normB == ((i - 1) % MaxNorm) + 1
                  normA == (((i - 1) \div MaxNorm) % (D + 1)) + 1
                  dot == (((i - 1) \div MaxNorm) \div (D + 1)) + 1
              IN  IF dot * dot <= normA * normB
                  THEN DoubleOver(dot, DoubleTimes(Sqrts[normA], Sqrts[normB]))
                  ELSE Zero],
          MaxDot * (D + 1) * MaxNorm)

\* the same for a prototype that is c times the query, c <= MaxCount: dot is
\* c * normA and normB is c * c * normA
MultipleQuotients ==
    Tuple([i \in 1..(MaxCount * (D + 1)) |->
              LET normA == ((i - 1) % (D + 1)) + 1
                  c == ((i - 1) \div (D + 1)) + 1
              IN  DoubleOver(c * normA,
                             DoubleTimes(DoubleSqrt(normA), DoubleSqrt(c * c * normA)))],
          MaxCount * (D + 1))

\* dot / (Math.sqrt(normA) * Math.sqrt(normB)) for dot > 0 and positive norms
quotientOf(dot, normA, normB) ==
    IF normA <= D + 1 /\ normB <= MaxNorm /\ dot <= MaxDot
    THEN SmallQuotients[SmallIndex(dot, normA, normB)]
    ELSE IF /\ normA <= D + 1
            /\ dot % normA = 0
            /\ dot \div normA <= MaxCount
            /\ normB = (dot \div normA) * dot
    THEN MultipleQuotients[((dot \div normA) - 1) * (D + 1) + normA]
    ELSE DoubleOver(dot, DoubleTimes(DoubleSqrt(normA), DoubleSqrt(normB)))

\* the double of the opposite sign
Negated(x) == IF x.k = "dbl" THEN [x EXCEPT !.s = -x.s] ELSE x

\* x < y as JavaScript evaluates it: false when either side is NaN
Lt(x, y) ==
    IF x.k = "nan" \/ y.k = "nan" THEN FALSE
    ELSE IF y.k = "ninf" THEN FALSE
    ELSE IF x.k = "ninf" THEN TRUE
    ELSE IF x.s # y.s THEN x.s < y.s
    ELSE IF x.s = 0 THEN FALSE
    ELSE IF x.k = "dbl"
    THEN IF x.s = 1 THEN x.e < y.e \/ (x.e = y.e /\ ~BigGeq(x.m, y.m))
         ELSE y.e < x.e \/ (x.e = y.e /\ ~BigGeq(y.m, x.m))
    ELSE x.s * x.p * y.q < y.s * y.p * x.q

\* x > y as JavaScript evaluates it
Gt(x, y) == Lt(y, x)

-----------------------------------------------------------------------------
(* The recognizer as a value, so that an operation can be evaluated on any  *)
(* recognizer (the one of the state, or a second one).                      *)

Recognizer(d, nb, th, fhv, cls, rg) ==
    [dim |-> d, numBins |-> nb, threshold |-> th,
     featureHVs |-> fhv, classes |-> cls, rng |-> rg]

This == Recognizer(dim, numBins, threshold, featureHVs, classes, rng)

\* constructor(dim, numBins, threshold, seed)
NewRecognizer(d, nb, th, seed) == Recognizer(d, nb, th, <<>>, <<>>, seed)

\* a result that is null
Null == <<"null">>

-----------------------------------------------------------------------------
(* Class store *)

\* the loop of addExample over a prototype: element i < dim receives hv[i];
\* a write past the end of the typed array is dropped
AddInto(prototype, hv, d) ==
    [i \in 1..Len(prototype) |->
        IF i <= d THEN prototype[i] + hv[i] ELSE prototype[i]]

\* addExample that stores the example in place of the sum
addExampleClassesOverwrite(r, gestureName, hv) ==
    LET name == toUpperCase(gestureName)
        count == IF MapHas(r.classes, name) THEN MapGet(r.classes, name).exampleCount
                 ELSE 0
    IN  MapSet(r.classes, name,
               [name |-> name, prototype |-> hv, exampleCount |-> count + 1])

\* addExample(gestureName, hv): the class store afterwards
addExampleClasses(r, gestureName, hv) ==
    LET name == toUpperCase(gestureName)
        cls0 == IF MapHas(r.classes, name) THEN r.classes
                ELSE MapSet(r.classes, name,
                            [name |-> name, prototype |-> ZeroArray(r.dim),
                             exampleCount |-> 0])
        gestureClass == MapGet(cls0, name)
    IN  MapSet(cls0, name,
               [gestureClass EXCEPT
                   !.prototype = AddInto(gestureClass.prototype, hv, r.dim),
                   !.exampleCount = gestureClass.exampleCount + 1])

\* addExample(gestureName, hv): the value returned
addExampleReturn(r, gestureName, hv) ==
    MapGet(addExampleClasses(r, gestureName, hv), toUpperCase(gestureName)).exampleCount

\* cosineSimilarity(a, b): an element read past the end of a or b is
\* undefined and turns dot, the norms and the quotient into NaN
cosineSimilarity(r, a, b) ==
    IF \E i \in 0..(r.dim - 1) : ~HasIndex(a, i) \/ ~HasIndex(b, i) THEN NaN
    ELSE LET dot   == SumSeq([i \in 1..r.dim |-> a[i] * b[i]])
             normA == SumSeq([i \in 1..r.dim |-> a[i] * a[i]])
             normB == SumSeq([i \in 1..r.dim |-> b[i] * b[i]])
         IN  IF normA * normB = 0 \/ dot = 0 THEN Zero
             ELSE IF dot > 0 THEN quotientOf(dot, normA, normB)
             ELSE Negated(quotientOf(-dot, normA, normB))

\* the loop of predict with >= in the running maximum: the last of equals wins
RECURSIVE predictLoopLastWins(_, _, _, _)
predictLoopLastWins(r, hv, i, acc) ==
    IF i > Len(r.classes) THEN acc
    ELSE LET gestureClass == r.classes[i]
             sim == cosineSimilarity(r, hv, gestureClass.prototype)
             sims == Append(acc.similarities, [name |-> gestureClass.name, sim |-> sim])
         IN  predictLoopLastWins(r, hv, i + 1,
                 IF Gt(sim, acc.bestSim) \/ sim = acc.bestSim
                 THEN [similarities |-> sims, bestSim |-> sim, bestClass |-> gestureClass.name]
                 ELSE [acc EXCEPT !.similarities = sims])

\* the loop of predict over classes i..end, from the running best
RECURSIVE predictLoop(_, _, _, _)
predictLoop(r, hv, i, acc) ==
    IF i > Len(r.classes) THEN acc
    ELSE LET gestureClass == r.classes[i]
             sim == cosineSimilarity(r, hv, gestureClass.prototype)
             sims == Append(acc.similarities, [name |-> gestureClass.name, sim |-> sim])
         IN  predictLoop(r, hv, i + 1,
                 IF Gt(sim, acc.bestSim)
                 THEN [similarities |-> sims, bestSim |-> sim, bestClass |-> gestureClass.name]
                 ELSE [acc EXCEPT !.similarities = sims])

\* predict without the early return on an empty class store
predictThroughLoop(r, hv) ==
    LET acc == predictLoop(r, hv, 1,
                   [similarities |-> <<>>, bestSim |-> NegInfinity, bestClass |-> Null])
    IN  IF Lt(acc.bestSim, r.threshold)
        THEN [prediction |-> Null, similarities |-> acc.similarities,
              confidence |-> acc.bestSim]
        ELSE [prediction |-> acc.bestClass, similarities |-> acc.similarities,
              confidence |-> acc.bestSim]

\* predict that returns no label at the threshold itself
predictAboveOnly(r, hv) ==
    IF Len(r.classes) = 0
    THEN [prediction |-> Null, similarities |-> <<>>, confidence |-> Zero]
    ELSE LET acc == predictLoop(r, hv, 1,
                        [similarities |-> <<>>, bestSim |-> NegInfinity, bestClass |-> Null])
         IN  IF Lt(acc.bestSim, r.threshold) \/ acc.bestSim = r.threshold
             THEN [prediction |-> Null, similarities |-> acc.similarities,
                   confidence |-> acc.bestSim]
             ELSE [prediction |-> acc.bestClass, similarities |-> acc.similarities,
                   confidence |-> acc.bestSim]

\* predict(hv)
predict(r, hv) ==
    IF Len(r.classes) = 0
    THEN [prediction |-> Null, similarities |-> <<>>, confidence |-> Zero]
    ELSE LET acc == predictLoop(r, hv, 1,
                        [similarities |-> <<>>, bestSim |-> NegInfinity, bestClass |-> Null])
         IN  IF Lt(acc.bestSim, r.threshold)
             THEN [prediction |-> Null, similarities |-> acc.similarities,
                   confidence |-> acc.bestSim]
             ELSE [prediction |-> acc.bestClass, similarities |-> acc.similarities,
                   confidence |-> acc.bestSim]

\* getClassNames()
getClassNames(r) == MapKeys(r.classes)

\* getExampleCount that looks the name up as it is spelled
getExampleCountAsSpelled(r, name) ==
    IF MapHas(r.classes, name) THEN MapGet(r.classes, name).exampleCount ELSE 0

\* getExampleCount(name)
getExampleCount(r, name) ==
    IF MapHas(r.classes, toUpperCase(name))
    THEN MapGet(r.classes, toUpperCase(name)).exampleCount
    ELSE 0

\* removeGesture that empties the class store when it finds the class
removeGestureClassesAll(r, name) ==
    IF MapHas(r.classes, toUpperCase(name)) THEN <<>> ELSE r.classes

\* removeGesture(name): the class store afterwards
removeGestureClasses(r, name) ==
    MapDelete(r.classes, toUpperCase(name))

\* removeGesture(name): the value returned
removeGestureReturn(r, name) == MapHas(r.classes, toUpperCase(name))

-----------------------------------------------------------------------------
(* Serializer *)

\* the loop of export: data[name] = {prototype, exampleCount} per class
RECURSIVE exportLoop(_, _, _)
exportLoop(cls, i, data) ==
    IF i > Len(cls) THEN data
    ELSE exportLoop(cls, i + 1,
             ObjectSet(data, cls[i].name,
                       [prototype |-> cls[i].prototype,
                        exampleCount |-> cls[i].exampleCount]))

\* export()
export(r) ==
    [dim |-> r.dim, numBins |-> r.numBins, threshold |-> r.threshold,
     classes |-> exportLoop(r.classes, 1, EmptyObject)]

\* the loop of import over Object.entries(data.classes)
RECURSIVE importLoop(_, _, _)
importLoop(entries, i, cls) ==
    IF i > Len(entries) THEN cls
    ELSE importLoop(entries, i + 1,
             MapSet(cls, entries[i].key,
                    [name |-> entries[i].key,
                     prototype |-> entries[i].value.prototype,
                     exampleCount |-> entries[i].value.exampleCount]))

\* import(data) throws when data.classes is undefined (Object.entries)
importThrows(data) == "classes" \notin DOMAIN data

\* import(data): the recognizer afterwards.  The three configuration fields
\* are assigned and the class store is cleared before data.classes is read.
importInto(r, data) ==
    [r EXCEPT !.dim = data.dim,
              !.numBins = data.numBins,
              !.threshold = data.threshold,
              !.classes = IF importThrows(data) THEN <<>>
                          ELSE importLoop(ObjectEntries(data.classes), 1, <<>>)]

-----------------------------------------------------------------------------
(* SeededRandom.  The seed is an unsigned 32-bit value held as two 16-bit   *)
(* halves [hi, lo]; the products of next() stay below 2^53 in the code, so  *)
(* the arithmetic modulo 2^32 is exact.                                     *)

Two16 == 65536

\* new SeededRandom(seed), 0 <= seed < 2^31
SeededRandom(seed) == [hi |-> seed \div Two16, lo |-> seed % Two16]

\* 1664525 = LcgMulHi * 2^16 + LcgMulLo
LcgMulHi == 25

LcgMulLo == 26125

\* 1013904223 = LcgIncHi * 2^16 + LcgIncLo
LcgIncHi == 15470

LcgIncLo == 62303

\* next(): the seed afterwards, (seed * 1664525 + 1013904223) % 4294967296
nextSeed(sd) ==
    LET t0 == sd.lo * LcgMulLo + LcgIncLo
        t1 == sd.hi * LcgMulLo + sd.lo * LcgMulHi + LcgIncHi + (t0 \div Two16)
    IN  [hi |-> t1 % Two16, lo |-> t0 % Two16]

\* nextBipolar() on the seed after next(): seed / 2^32 < 0.5 ? -1 : 1
bipolarOf(sd) == IF sd.hi < 32768 THEN -1 ELSE 1

\* n successive nextBipolar() draws
RECURSIVE bipolarDraws(_, _)
bipolarDraws(sd, n) ==
    IF n = 0 THEN <<>>
    ELSE <<bipolarOf(nextSeed(sd))>> \o bipolarDraws(nextSeed(sd), n - 1)

-----------------------------------------------------------------------------
(* Item memory *)

\* the key `${featureIdx}:${binVal}`
FeatureKey(featureIdx, binVal) == <<featureIdx, binVal>>

\* the hypervectors getFeatureHV generates on a miss, tabulated over dim and
\* the key: dim draws of a SeededRandom whose seed is a function of the key
GeneratedHVs ==
    [d \in 1..(D + 1) |->
        [key \in (0..99) \X (0..5) |->
            bipolarDraws(SeededRandom(key[1] * 1000 + key[2] + 12345), d)]]

\* a hypervector drawn from the recognizer's own generator, this.rng
generateHVFromRng(r, featureIdx, binVal) == bipolarDraws(r.rng, r.dim)

\* the hypervector getFeatureHV generates on a miss
generateHV(r, featureIdx, binVal) ==
    GeneratedHVs[r.dim][FeatureKey(featureIdx, binVal)]

\* getFeatureHV(featureIdx, binVal): the hypervector returned
getFeatureHV(r, featureIdx, binVal) ==
    IF FeatureKey(featureIdx, binVal) \in DOMAIN r.featureHVs
    THEN r.featureHVs[FeatureKey(featureIdx, binVal)]
    ELSE generateHV(r, featureIdx, binVal)

-----------------------------------------------------------------------------
(* Quantizer.  A feature value is a real (Surd) or acos(c) / pi for a real  *)
(* c, which is compared through c.                                          *)

\* x / y for reals, y # 0
Div(x, y) == Surd(x.s * y.s, x.p * y.q, x.q * y.p)

\* acos(c) / Math.PI
AcosOverPi(c) == [k |-> "acosOverPi", c |-> c]

\* cos(pi * a / b) for 0 < a / b < 1 in lowest terms, b in {2, 3, 4, 6}
CosPi(a, b) ==
    CASE b = 2 -> Zero
      [] b = 3 -> Rational(IF a = 1 THEN 1 ELSE -1, 2)
      [] b = 4 -> Surd(IF a = 1 THEN 1 ELSE -1, 1, 2)
      [] b = 6 -> Surd(IF a = 1 THEN 1 ELSE -1, 3, 4)

\* value > a / b, b > 0
ExceedsRational(value, a, b) ==
    IF value.k = "acosOverPi"
    THEN IF a < 0 THEN TRUE
         ELSE IF a >= b THEN FALSE
         ELSE IF a = 0 THEN value.c # Rational(1, 1)
         ELSE Lt(value.c, CosPi(a \div GCD(a, b), b \div GCD(a, b)))
    ELSE Gt(value, Rational(a, b))

\* quantize(value, minVal, maxVal).  floor(clamped * numBins) >= k holds
\* exactly when value - minVal >= k * (maxVal - minVal + 1e-8) / numBins,
\* which for values on the landmark grid is value > minVal + k * (maxVal -
\* minVal) / numBins; the bin is the number of such k in 1 .. numBins - 1.
quantize(r, value, minVal, maxVal) ==
    Cardinality({k \in 1..(r.numBins - 1) :
        ExceedsRational(value, minVal * r.numBins + k * (maxVal - minVal), r.numBins)})

-----------------------------------------------------------------------------
(* Feature extractor.  A landmark array is a sequence of [x, y, z] with     *)
(* integer coordinates on a grid whose unit is far above 1e-6, so that a    *)
(* length below 1e-6 (or 1e-8) is a length of zero.                         *)

WRIST == 0
THUMB_CMC == 1
THUMB_MCP == 2
THUMB_IP == 3
THUMB_TIP == 4
INDEX_MCP == 5
INDEX_PIP == 6
INDEX_DIP == 7
INDEX_TIP == 8
MIDDLE_MCP == 9
MIDDLE_PIP == 10
MIDDLE_DIP == 11
MIDDLE_TIP == 12
RING_MCP == 13
RING_PIP == 14
RING_DIP == 15
RING_TIP == 16
PINKY_MCP == 17
PINKY_PIP == 18
PINKY_DIP == 19
PINKY_TIP == 20

FINGERTIPS == <<THUMB_TIP, INDEX_TIP, MIDDLE_TIP, RING_TIP, PINKY_TIP>>

FINGER_MCPS == <<THUMB_MCP, INDEX_MCP, MIDDLE_MCP, RING_MCP, PINKY_MCP>>

\* squared length of a - b
Dist2(a, b) ==
    (a.x - b.x) * (a.x - b.x) + (a.y - b.y) * (a.y - b.y) + (a.z - b.z) * (a.z - b.z)

\* distance(a, b)
distance(a, b) == Surd(1, Dist2(a, b), 1)

\* angle(a, b, c) / Math.PI
angleOverPi(a, b, c) ==
    LET ba  == [x |-> a.x - b.x, y |-> a.y - b.y, z |-> a.z - b.z]
        bc  == [x |-> c.x - b.x, y |-> c.y - b.y, z |-> c.z - b.z]
        dot == ba.x * bc.x + ba.y * bc.y + ba.z * bc.z
        magBa2 == ba.x * ba.x + ba.y * ba.y + ba.z * ba.z
        magBc2 == bc.x * bc.x + bc.y * bc.y + bc.z * bc.z
    IN  IF magBa2 = 0 \/ magBc2 = 0 THEN Zero
        ELSE AcosOverPi(Surd(Sign(dot), dot * dot, magBa2 * magBc2))

\* the landmarks in quarter grid units, in which the mean of four is exact
Quarters(landmarks) ==
    [i \in 1..Len(landmarks) |->
        [x |-> 4 * landmarks[i].x, y |-> 4 * landmarks[i].y, z |-> 4 * landmarks[i].z]]

\* the pairs i < j of the inter-fingertip loop, in loop order
TipPairs == <<<<1, 2>>, <<1, 3>>, <<1, 4>>, <<1, 5>>, <<2, 3>>,
              <<2, 4>>, <<2, 5>>, <<3, 4>>, <<3, 5>>, <<4, 5>>>>

fingerJoints ==
    <<<<THUMB_MCP, THUMB_IP, THUMB_TIP>>,
      <<INDEX_MCP, INDEX_PIP, INDEX_TIP>>,
      <<MIDDLE_MCP, MIDDLE_PIP, MIDDLE_TIP>>,
      <<RING_MCP, RING_PIP, RING_TIP>>,
      <<PINKY_MCP, PINKY_PIP, PINKY_TIP>>>>

\* extractFeatures throws a TypeError when it reads a property of a landmark
\* that is not there: the wrist or the middle MCP, or, past the check of the
\* hand size, any of the landmarks up to the pinky tip
extractFeaturesThrows(landmarks) ==
    \/ ~HasIndex(landmarks, MIDDLE_MCP)
    \/ /\ Dist2(At(landmarks, WRIST), At(landmarks, MIDDLE_MCP)) # 0
       /\ ~HasIndex(landmarks, PINKY_TIP)

\* extractFeatures(landmarks), when it does not throw
extractFeatures(landmarks) ==
    LET lm == Quarters(landmarks)
        wrist == At(lm, WRIST)
        middleMcp == At(lm, MIDDLE_MCP)
        handSize == distance(wrist, middleMcp)
    IN  IF handSize = Zero THEN [i \in 1..100 |-> Zero]
        ELSE
        LET palmCenter ==
                [x |-> (At(lm, INDEX_MCP).x + At(lm, MIDDLE_MCP).x
                        + At(lm, RING_MCP).x + At(lm, PINKY_MCP).x) \div 4,
                 y |-> (At(lm, INDEX_MCP).y + At(lm, MIDDLE_MCP).y
                        + At(lm, RING_MCP).y + At(lm, PINKY_MCP).y) \div 4,
                 z |-> (At(lm, INDEX_MCP).z + At(lm, MIDDLE_MCP).z
                        + At(lm, RING_MCP).z + At(lm, PINKY_MCP).z) \div 4]
            tip(i) == At(lm, FINGERTIPS[i])
            f1 == [i \in 1..5 |-> Div(distance(tip(i), wrist), handSize)]
            f2 == [i \in 1..5 |-> Div(distance(tip(i), palmCenter), handSize)]
            f3 == [i \in 1..5 |-> Div(Rational(wrist.y - tip(i).y, 1), handSize)]
            f4 == [i \in 1..5 |-> Div(Rational(tip(i).x - palmCenter.x, 1), handSize)]
            f5 == [i \in 1..5 |->
                      angleOverPi(At(lm, fingerJoints[i][1]), At(lm, fingerJoints[i][2]),
                                  At(lm, fingerJoints[i][3]))]
            f6 == [n \in 1..10 |->
                      Div(distance(tip(TipPairs[n][1]), tip(TipPairs[n][2])), handSize)]
            f7 == [i \in 1..4 |-> Div(distance(At(lm, THUMB_TIP), tip(i + 1)), handSize)]
            f8 == [i \in 1..5 |-> Div(Rational(tip(i).z - wrist.z, 1), handSize)]
            f9 == [i \in 1..4 |->
                      Div(distance(At(lm, FINGER_MCPS[i]), At(lm, FINGER_MCPS[i + 1])),
                          handSize)]
        IN  f1 \o f2 \o f3 \o f4 \o f5 \o f6 \o f7 \o f8 \o f9

-----------------------------------------------------------------------------
(* Encoder *)

\* the quantization range encodeLandmarks uses for feature i
minValOf(i) ==
    IF i >= 10 /\ i < 15 THEN -2
    ELSE IF i >= 15 /\ i < 20 THEN -2
    ELSE IF i >= 20 /\ i < 25 THEN 0
    ELSE IF i >= 43 /\ i < 48 THEN -1
    ELSE 0

maxValOf(i) ==
    IF i >= 10 /\ i < 15 THEN 2
    ELSE IF i >= 15 /\ i < 20 THEN 2
    ELSE IF i >= 20 /\ i < 25 THEN 1
    ELSE IF i >= 43 /\ i < 48 THEN 1
    ELSE 3

\* the bins of a feature vector: quantize(features[i], minVal, maxVal) for
\* every i of the bundling loop
binsOf(r, features) ==
    [i \in 1..Len(features) |->
        quantize(r, features[i], minValOf(i - 1), maxValOf(i - 1))]

\* the keys the bundling loop of encodeLandmarks passes to getFeatureHV
bundleKeys(bins) == {FeatureKey(i - 1, bins[i]) : i \in 1..Len(bins)}

\* the item memory after the bundling loop: getFeatureHV adds every key that
\* misses, with a hypervector that depends on the key and on dim only, and
\* leaves the stored ones as they are
bundleMemory(r, bins) ==
    r.featureHVs @@ [key \in bundleKeys(bins) |-> generateHV(r, key[1], key[2])]

\* element j of the accumulator after the bundling loop over the feature
\* hypervectors hvs: the sum of their elements j, NaN when one of them has
\* no element j
Accumulated(hvs, j) ==
    IF \E i \in 1..Len(hvs) : ~HasIndex(hvs[i], j) THEN NaN
    ELSE Rational(SumSeq([i \in 1..Len(hvs) |-> At(hvs[i], j)]), 1)

\* hv[i] > 0 ? 1 : -1
signOfPositive(x) == IF Gt(x, Zero) THEN 1 ELSE -1

\* hv[i] >= 0 ? 1 : -1
signOf(x) == IF Lt(x, Zero) \/ x.k = "nan" THEN -1 ELSE 1

\* the bundling and binarizing of encodeLandmarks over the bins of the features
bundle(r, bins) ==
    LET hvs == [i \in 1..Len(bins) |-> getFeatureHV(r, i - 1, bins[i])]
    IN  [j \in 1..r.dim |-> signOf(Accumulated(hvs, j - 1))]

\* encodeLandmarks(landmarks): the hypervector returned, when nothing throws
encodeLandmarks(r, landmarks) == bundle(r, binsOf(r, extractFeatures(landmarks)))

-----------------------------------------------------------------------------
(* Inputs of the operations *)

thumbs_up == <<"t","h","u","m","b","s","_","u","p">>

THUMBS_UP == <<"T","H","U","M","B","S","_","U","P">>

fist == <<"f","i","s","t">>

FIST == <<"F","I","S","T">>

Two == <<"2">>

\* the names passed to addExample, getExampleCount and removeGesture
GestureNames == {thumbs_up, THUMBS_UP, Two}

\* the bipolar vectors of length n
Bipolar(n) == [1..n -> {-1, 1}]

Ones(n) == [i \in 1..n |-> 1]

\* the hypervectors passed to addExample: all elements equal, the elements
\* alternating
ExampleHVs(n) ==
    {Ones(n), [i \in 1..n |-> IF i % 2 = 1 THEN 1 ELSE -1]}

\* the hypervectors passed to predict: those of the examples and the
\* opposite of one of them
QueryHVs(n) == ExampleHVs(n) \cup {[i \in 1..n |-> -1]}

P(x, y, z) == [x |-> x, y |-> y, z |-> z]

\* an open hand, fingers up, the little finger tilted towards the camera
OpenHand ==
    <<P(3,6,0),
      P(2,5,0), P(1,4,0), P(0,3,0), P(0,2,0),
      P(2,3,0), P(2,2,0), P(2,1,0), P(2,0,0),
      P(3,3,0), P(3,2,0), P(3,1,0), P(3,0,0),
      P(4,3,0), P(4,2,0), P(4,1,0), P(4,0,0),
      P(5,3,0), P(5,2,-1), P(5,1,-2), P(5,0,-3)>>

\* 21 landmarks in one point: hand size 0
Collapsed == [i \in 1..21 |-> P(1,1,0)]

\* 10 landmarks in one point
CollapsedShort == [i \in 1..10 |-> P(1,1,0)]

\* 3 landmarks
TooShort == SubSeq(OpenHand, 1, 3)

\* 20 landmarks: the open hand without the pinky tip
NoPinkyTip == SubSeq(OpenHand, 1, 20)

\* 22 landmarks: the open hand and one more
TooLong == Append(OpenHand, P(0,0,0))

\* the landmark arrays passed to encodeLandmarks
Poses == {OpenHand, Collapsed, CollapsedShort, TooShort, NoPinkyTip, TooLong}

Half == PowerOfTwo(-1)

Quarter == PowerOfTwo(-2)

ClassData(prototype, exampleCount) ==
    [prototype |-> prototype, exampleCount |-> exampleCount]

\* three classes, two of them with the same prototype
StateThree ==
    [dim |-> D, numBins |-> 4, threshold |-> Zero,
     classes |-> ObjectSet(ObjectSet(ObjectSet(EmptyObject,
                     FIST, ClassData(Ones(D), 1)),
                     Two, ClassData([i \in 1..D |-> IF i = 1 THEN 2 ELSE 0], 2)),
                     THUMBS_UP, ClassData(Ones(D), 1))]

\* no class, another dim and numBins
StateEmpty ==
    [dim |-> D - 1, numBins |-> 2, threshold |-> Half, classes |-> EmptyObject]

\* a class under a name that is not upper case
StateLower ==
    [dim |-> D, numBins |-> 4, threshold |-> Quarter,
     classes |-> ObjectSet(EmptyObject, fist, ClassData(Ones(D), 1))]

\* a class without examples
StateNoExample ==
    [dim |-> D, numBins |-> 4, threshold |-> Quarter,
     classes |-> ObjectSet(EmptyObject, FIST, ClassData(ZeroArray(D), 0))]

\* a prototype shorter than dim
StateShort ==
    [dim |-> D, numBins |-> 4, threshold |-> Quarter,
     classes |-> ObjectSet(EmptyObject, FIST, ClassData(Ones(D - 1), 1))]

\* a prototype longer than dim
StateLong ==
    [dim |-> D, numBins |-> 4, threshold |-> Quarter,
     classes |-> ObjectSet(EmptyObject, FIST, ClassData(Ones(D + 1), 1))]

\* the field classes is missing
StateNoClasses == [dim |-> D, numBins |-> 4, threshold |-> Zero]

\* the states passed to import
ImportStates ==
    {StateThree, StateEmpty, StateLower, StateNoExample,
     StateShort, StateLong, StateNoClasses}

\* no classes, under a configuration of a greater dim and fewer bins
StateWider ==
    [dim |-> D + 1, numBins |-> 2, threshold |-> Half, classes |-> EmptyObject]

\* the states imported into a recognizer that encodes
EncoderImports == {StateWider}

\* the arguments of the constructor: <<dim, numBins, threshold, seed>>
ConstructorArgs == {<<D, 4, Quarter, 42>>, <<D, 4, Quarter, 7>>}

\* the values numBins takes: those of the constructor and of the imports
NumBinsValues ==
    {args[2] : args \in ConstructorArgs}
        \cup {data.numBins : data \in ImportStates \cup EncoderImports}

\* the poses extractFeatures accepts
EncodablePoses == {landmarks \in Poses : ~extractFeaturesThrows(landmarks)}

\* binsOf(r, extractFeatures(landmarks)) tabulated over numBins and the poses
BinTable ==
    [nb \in NumBinsValues |->
        [landmarks \in EncodablePoses |->
            binsOf([numBins |-> nb], extractFeatures(landmarks))]]

-----------------------------------------------------------------------------
(* The operations of HDCGestureRecognizer *)

\* the state after new HDCGestureRecognizer(dim, numBins, threshold, seed)
Constructed(args) ==
    /\ dim = args[1]
    /\ numBins = args[2]
    /\ threshold = args[3]
    /\ featureHVs = <<>>
    /\ classes = <<>>
    /\ rng = SeededRandom(args[4])
    /\ last = [op |-> "constructor"]

\* const REQUIRED_EXAMPLES
REQUIRED_EXAMPLES == 5

\* the trainingState between two training sessions
NoTraining ==
    [gestureName |-> <<>>, examplesCollected |-> 0, requiredExamples |-> REQUIRED_EXAMPLES]

\* the video element that videoRef holds while the component is mounted
Video == <<"video">>

\* the hook useHandTracking after the first commit: the initial value of
\* useState, the refs of useRef, and the effect run once, up to its first await
FirstEffect ==
    /\ state = [isLoading |-> TRUE, isReady |-> FALSE, error |-> FALSE, landmarks |-> Null]
    /\ handsRef = 0
    /\ animationRef = 0
    /\ streamRef = 0
    /\ videoRef = Video
    /\ mounted = <<TRUE>>
    /\ pc = <<"import">>
    /\ hands = <<"none">>
    /\ stream = <<"none">>
    /\ sendTo = <<0>>
    /\ frames = {}
    /\ event = [op |-> "effect", run |-> 1]

\* the state of GestureDemo at its first render: the initial values of useState
FirstRender ==
    /\ mode = "recognition"
    /\ prediction = Null
    /\ trainingState = NoTraining
    /\ gestureNames = <<>>
    /\ currentLandmarks = Null
    /\ captured = 0
    /\ FirstEffect

Init == FirstRender /\ \E args \in ConstructorArgs : Constructed(args)

\* the constructor called without a seed
InitStore == FirstRender /\ Constructed(<<D, 4, Quarter, 42>>)

\* encodeLandmarks(landmarks)
EncodeLandmarks(landmarks) ==
    /\ IF extractFeaturesThrows(landmarks)
       THEN /\ last' = [op |-> "encodeLandmarks", landmarks |-> landmarks,
                        error |-> "TypeError"]
            /\ UNCHANGED featureHVs
       ELSE /\ last' = [op |-> "encodeLandmarks", landmarks |-> landmarks,
                        error |-> "none", ret |-> bundle(This, BinTable[numBins][landmarks])]
            /\ featureHVs' = bundleMemory(This, BinTable[numBins][landmarks])
    /\ UNCHANGED <<dim, numBins, threshold, classes, rng>>
    /\ UNCHANGED hookVars

\* addExample(gestureName, hv)
AddExample(gestureName, hv) ==
    /\ getExampleCount(This, gestureName) < MaxExamples
    /\ MapHas(classes, toUpperCase(gestureName)) \/ Len(classes) < MaxClasses
    /\ classes' = addExampleClasses(This, gestureName, hv)
    /\ last' = [op |-> "addExample", gestureName |-> gestureName, hv |-> hv,
                ret |-> addExampleReturn(This, gestureName, hv)]
    /\ UNCHANGED <<dim, numBins, threshold, featureHVs, rng>>
    /\ UNCHANGED hookVars

\* predict that adds the query to the prototype of the class it recognizes
PredictAndLearn(hv) ==
    /\ last' = [op |-> "predict", hv |-> hv, ret |-> predict(This, hv)]
    /\ classes' = IF predict(This, hv).prediction = Null THEN classes
                  ELSE addExampleClasses(This, predict(This, hv).prediction, hv)
    /\ UNCHANGED <<dim, numBins, threshold, featureHVs, rng>>
    /\ UNCHANGED hookVars

\* predict(hv)
Predict(hv) ==
    /\ last' = [op |-> "predict", hv |-> hv, ret |-> predict(This, hv)]
    /\ UNCHANGED <<dim, numBins, threshold, featureHVs, classes, rng>>
    /\ UNCHANGED hookVars

\* getClassNames()
GetClassNames ==
    /\ last' = [op |-> "getClassNames", ret |-> getClassNames(This)]
    /\ UNCHANGED <<dim, numBins, threshold, featureHVs, classes, rng>>
    /\ UNCHANGED hookVars

\* getExampleCount(name)
GetExampleCount(name) ==
    /\ last' = [op |-> "getExampleCount", name |-> name,
                ret |-> getExampleCount(This, name)]
    /\ UNCHANGED <<dim, numBins, threshold, featureHVs, classes, rng>>
    /\ UNCHANGED hookVars

\* clearAll that forgets the item memory too
ClearAllAndItemMemory ==
    /\ classes' = <<>>
    /\ featureHVs' = <<>>
    /\ last' = [op |-> "clearAll"]
    /\ UNCHANGED <<dim, numBins, threshold, rng>>
    /\ UNCHANGED hookVars

\* clearAll()
ClearAll ==
    /\ classes' = <<>>
    /\ last' = [op |-> "clearAll"]
    /\ UNCHANGED <<dim, numBins, threshold, featureHVs, rng>>
    /\ UNCHANGED hookVars

\* removeGesture(name)
RemoveGesture(name) ==
    /\ classes' = removeGestureClasses(This, name)
    /\ last' = [op |-> "removeGesture", name |-> name,
                ret |-> removeGestureReturn(This, name)]
    /\ UNCHANGED <<dim, numBins, threshold, featureHVs, rng>>
    /\ UNCHANGED hookVars

\* export()
Export ==
    /\ last' = [op |-> "export", ret |-> export(This)]
    /\ UNCHANGED <<dim, numBins, threshold, featureHVs, classes, rng>>
    /\ UNCHANGED hookVars

\* import(data)
Import(data) ==
    /\ dim' = importInto(This, data).dim
    /\ numBins' = importInto(This, data).numBins
    /\ threshold' = importInto(This, data).threshold
    /\ classes' = importInto(This, data).classes
    /\ last' = [op |-> "import", data |-> data,
                error |-> IF importThrows(data) THEN "TypeError" ELSE "none"]
    /\ UNCHANGED <<featureHVs, rng>>
    /\ UNCHANGED hookVars

-----------------------------------------------------------------------------
(* Specifications *)

\* the class store, the classifier and the serializer
NextStore ==
    \/ \E name \in GestureNames, hv \in ExampleHVs(dim) : AddExample(name, hv)
    \/ \E hv \in QueryHVs(dim) : Predict(hv)
    \/ GetClassNames
    \/ \E name \in GestureNames : GetExampleCount(name)
    \/ ClearAll
    \/ \E name \in GestureNames : RemoveGesture(name)
    \/ Export
    \/ \E data \in ImportStates : Import(data)

SpecStore == InitStore /\ [][NextStore]_vars

\* the encoder in front of the class store, as a caller uses it: a pose is
\* encoded and the hypervector returned is added or classified
NextEncode ==
    \/ \E landmarks \in Poses : EncodeLandmarks(landmarks)
    \/ /\ last.op = "encodeLandmarks"
       /\ last.error = "none"
       /\ AddExample(thumbs_up, last.ret)
    \/ /\ last.op = "encodeLandmarks"
       /\ last.error = "none"
       /\ Predict(last.ret)
    \/ ClearAll
    \/ \E data \in EncoderImports : Import(data)

SpecEncode == Init /\ [][NextEncode]_vars

-----------------------------------------------------------------------------
(* The component GestureDemo (src/src/hooks/useAudio.ts, lines 98-721).  An  *)
(* event handler runs as one step on the state of the last render.  The     *)
(* sounds and the status message, which no handler reads, are left out.     *)
(* The component constructs its recognizer with (10000, 16, 0.25); here it  *)
(* has dim D and 4 bins.                                                    *)

\* String.prototype.trim, for strings with no other white space than " "
RECURSIVE trimStart(_)
trimStart(s) == IF Len(s) > 0 /\ s[1] = " " THEN trimStart(Tail(s)) ELSE s

RECURSIVE trimEnd(_)
trimEnd(s) ==
    IF Len(s) > 0 /\ s[Len(s)] = " " THEN trimEnd(SubSeq(s, 1, Len(s) - 1)) ELSE s

trim(s) == trimEnd(trimStart(s))

\* what the user may have typed into the name field
InputValues ==
    {<<>>, <<" ">>, <<"o","k">>, <<" ","O","k"," ">>}

\* what the hand tracker passes to onFrame: null or the 21 landmarks of a hand
Frames == {Null} \cup {OpenHand}

\* handleFrame(landmarks)
HandleFrame(landmarks) ==
    /\ currentLandmarks' = landmarks
    /\ IF landmarks = Null
       THEN /\ prediction' = IF mode = "recognition" THEN Null ELSE prediction
            /\ UNCHANGED featureHVs
       ELSE /\ featureHVs' = bundleMemory(This, BinTable[numBins][landmarks])
            /\ prediction' =
                   IF mode = "recognition"
                   THEN predict(This, bundle(This, BinTable[numBins][landmarks]))
                   ELSE prediction
    /\ last' = [op |-> "handleFrame", landmarks |-> landmarks]
    /\ UNCHANGED <<dim, numBins, threshold, classes, rng>>
    /\ UNCHANGED <<mode, trainingState, gestureNames, captured>>
    /\ UNCHANGED trackVars

\* captureExample(): without effect unless mode is 'training' and there are
\* landmarks
CaptureExample ==
    /\ mode = "training"
    /\ currentLandmarks # Null
    /\ getExampleCount(This, trainingState.gestureName) < MaxCount
    /\ LET hv == bundle(This, BinTable[numBins][currentLandmarks])
           count == addExampleReturn(This, trainingState.gestureName, hv)
       IN  /\ featureHVs' = bundleMemory(This, BinTable[numBins][currentLandmarks])
           /\ classes' = addExampleClasses(This, trainingState.gestureName, hv)
           /\ IF count >= REQUIRED_EXAMPLES
              THEN /\ gestureNames' =
                          MapKeys(addExampleClasses(This, trainingState.gestureName, hv))
                   /\ mode' = "recognition"
                   /\ trainingState' = NoTraining
              ELSE /\ trainingState' = [trainingState EXCEPT !.examplesCollected = count]
                   /\ UNCHANGED <<mode, gestureNames>>
           /\ last' = [op |-> "captureExample", gestureName |-> trainingState.gestureName,
                       hv |-> hv, ret |-> count]
    /\ captured' = captured + 1
    /\ UNCHANGED <<dim, numBins, threshold, rng, prediction, currentLandmarks>>
    /\ UNCHANGED trackVars

\* startTraining(): the button and the key T exist in mode 'recognition'
StartTraining ==
    /\ mode = "recognition"
    /\ mode' = "naming"
    /\ last' = [op |-> "startTraining"]
    /\ UNCHANGED <<dim, numBins, threshold, featureHVs, classes, rng>>
    /\ UNCHANGED <<prediction, trainingState, gestureNames, currentLandmarks, captured>>
    /\ UNCHANGED trackVars

\* confirmGestureName() with value in the name field, which exists in mode
\* 'naming'
ConfirmGestureName(value) ==
    /\ mode = "naming"
    /\ LET name == toUpperCase(trim(value))
       IN  IF Len(name) = 0
           THEN UNCHANGED <<mode, trainingState, captured>>
           ELSE /\ trainingState' = [gestureName |-> name, examplesCollected |-> 0,
                                     requiredExamples |-> REQUIRED_EXAMPLES]
                /\ mode' = "training"
                /\ captured' = 0
    /\ last' = [op |-> "confirmGestureName", value |-> value]
    /\ UNCHANGED <<dim, numBins, threshold, featureHVs, classes, rng>>
    /\ UNCHANGED <<prediction, gestureNames, currentLandmarks>>
    /\ UNCHANGED trackVars

\* cancelTraining(): its buttons and keys exist in modes 'training' and
\* 'naming'
CancelTraining ==
    /\ mode \in {"training", "naming"}
    /\ mode' = "recognition"
    /\ trainingState' = NoTraining
    /\ last' = [op |-> "cancelTraining"]
    /\ UNCHANGED <<dim, numBins, threshold, featureHVs, classes, rng>>
    /\ UNCHANGED <<prediction, gestureNames, currentLandmarks, captured>>
    /\ UNCHANGED trackVars

\* clearAll() of the component: the button and the key C exist in mode
\* 'recognition'
ClearAllGestures ==
    /\ mode = "recognition"
    /\ classes' = <<>>
    /\ gestureNames' = <<>>
    /\ prediction' = Null
    /\ last' = [op |-> "clearAllGestures"]
    /\ UNCHANGED <<dim, numBins, threshold, featureHVs, rng>>
    /\ UNCHANGED <<mode, trainingState, currentLandmarks, captured>>
    /\ UNCHANGED trackVars

NextDemo ==
    \/ \E landmarks \in Frames : HandleFrame(landmarks)
    \/ CaptureExample
    \/ StartTraining
    \/ \E value \in InputValues : ConfirmGestureName(value)
    \/ CancelTraining
    \/ ClearAllGestures

SpecDemo == InitStore /\ [][NextDemo]_vars

-----------------------------------------------------------------------------
(* The hook useHandTracking (src/src/hooks/useHandTracking.ts).  Its effect  *)
(* runs initializeHandTracking, which awaits the import of the module, then  *)
(* getUserMedia, then video.play(), and then sends the video to the Hands    *)
(* instance once per animation frame.  A step is the code between two        *)
(* awaits.  A run of the effect is named by its number; the id of an         *)
(* animation frame is the run that requested it, which has at most one       *)
(* pending.  options.onFrame belongs to the caller: event records its call.  *)

\* what the steps of the hook leave alone
besideHook == <<dim, numBins, threshold, featureHVs, classes, rng, last, demoVars>>

\* the effect's cleanup function of the latest run: the refs are read when
\* it is called
mountedAfterCleanup == [mounted EXCEPT ![Len(mounted)] = FALSE]

framesAfterCleanup == frames \ {animationRef}

handsAfterCleanup == IF handsRef = 0 THEN hands ELSE [hands EXCEPT ![handsRef] = "closed"]

streamAfterCleanup ==
    IF streamRef = 0 THEN stream ELSE [stream EXCEPT ![streamRef] = "stopped"]

\* processFrame() of run e up to its await: where the run stands then
processFrame(e) == IF mounted[e] /\ handsRef # 0 THEN "send" ELSE "done"

\* the import of run e resolves: the Hands instance is created and stored.
\* Imports of one module resolve in the order they were made.
ImportResolved(e) ==
    /\ pc[e] = "import"
    /\ \A f \in 1..(e - 1) : pc[f] # "import"
    /\ hands' = [hands EXCEPT ![e] = "open"]
    /\ handsRef' = e
    /\ pc' = [pc EXCEPT ![e] = "getUserMedia"]
    /\ event' = [op |-> "new Hands", run |-> e]
    /\ UNCHANGED <<state, animationRef, streamRef, videoRef, mounted, stream, sendTo, frames>>
    /\ UNCHANGED besideHook

\* getUserMedia of run e resolves: the stream is stored, and played if there
\* is a video element
GetUserMediaResolved(e) ==
    /\ pc[e] = "getUserMedia"
    /\ stream' = [stream EXCEPT ![e] = "live"]
    /\ streamRef' = e
    /\ pc' = [pc EXCEPT ![e] = IF videoRef = Null THEN "done" ELSE "play"]
    /\ event' = [op |-> "getUserMedia", run |-> e]
    /\ UNCHANGED <<state, handsRef, animationRef, videoRef, mounted, hands, sendTo, frames>>
    /\ UNCHANGED besideHook

\* video.play() of run e resolves: the state is set to ready if the run is
\* mounted, and processFrame is called
PlayResolved(e) ==
    /\ pc[e] = "play"
    /\ state' = IF mounted[e] THEN [state EXCEPT !.isLoading = FALSE, !.isReady = TRUE]
                ELSE state
    /\ pc' = [pc EXCEPT ![e] = processFrame(e)]
    /\ sendTo' = [sendTo EXCEPT ![e] = IF processFrame(e) = "send" THEN handsRef ELSE @]
    /\ event' = [op |-> IF mounted[e] THEN "setState" ELSE "play", run |-> e]
    /\ UNCHANGED <<handsRef, animationRef, streamRef, videoRef, mounted, hands, stream, frames>>
    /\ UNCHANGED besideHook

\* an await of run e before the first frame rejects: the catch block
Rejected(e) ==
    /\ pc[e] \in {"import", "getUserMedia", "play"}
    /\ state' = IF mounted[e] THEN [state EXCEPT !.isLoading = FALSE, !.error = TRUE]
                ELSE state
    /\ pc' = [pc EXCEPT ![e] = "done"]
    /\ event' = [op |-> IF mounted[e] THEN "setState" ELSE "catch", run |-> e]
    /\ UNCHANGED <<handsRef, animationRef, streamRef, videoRef, mounted, hands, stream,
                   sendTo, frames>>
    /\ UNCHANGED besideHook

\* the Hands instance that run e sent a frame to calls its onResults callback,
\* which does nothing unless the run that created the instance is mounted
\* and the elements exist
Results(e, landmarks) ==
    /\ pc[e] = "send"
    /\ mounted[sendTo[e]]
    /\ videoRef # Null
    /\ state' = [state EXCEPT !.landmarks = landmarks]
    /\ event' = [op |-> "onFrame", run |-> sendTo[e], landmarks |-> landmarks]
    /\ UNCHANGED <<handsRef, animationRef, streamRef, videoRef, mounted, pc, hands, stream,
                   sendTo, frames>>
    /\ UNCHANGED besideHook

\* send of run e resolves or rejects: the next frame is requested
SendSettled(e) ==
    /\ pc[e] = "send"
    /\ animationRef' = e
    /\ frames' = frames \cup {e}
    /\ pc' = [pc EXCEPT ![e] = "frame"]
    /\ event' = [op |-> "requestAnimationFrame", run |-> e]
    /\ UNCHANGED <<state, handsRef, streamRef, videoRef, mounted, hands, stream, sendTo>>
    /\ UNCHANGED besideHook

\* the browser runs the animation frame that run e requested
AnimationFrame(e) ==
    /\ e \in frames
    /\ frames' = frames \ {e}
    /\ pc' = [pc EXCEPT ![e] = processFrame(e)]
    /\ sendTo' = [sendTo EXCEPT ![e] = IF processFrame(e) = "send" THEN handsRef ELSE @]
    /\ event' = [op |-> "processFrame", run |-> e]
    /\ UNCHANGED <<state, handsRef, animationRef, streamRef, videoRef, mounted, hands, stream>>
    /\ UNCHANGED besideHook

\* a dependency of the effect changes: the cleanup runs, then the effect again
DependencyChange ==
    /\ videoRef # Null
    /\ Len(mounted) < MaxEffects
    /\ mounted' = Append(mountedAfterCleanup, TRUE)
    /\ frames' = framesAfterCleanup
    /\ hands' = Append(handsAfterCleanup, "none")
    /\ stream' = Append(streamAfterCleanup, "none")
    /\ pc' = Append(pc, "import")
    /\ sendTo' = Append(sendTo, 0)
    /\ event' = [op |-> "effect", run |-> Len(mounted) + 1]
    /\ UNCHANGED <<state, handsRef, animationRef, streamRef, videoRef>>
    /\ UNCHANGED besideHook

\* the component is unmounted: the cleanup runs, and React clears the ref of
\* the video element
Unmount ==
    /\ videoRef # Null
    /\ mounted' = mountedAfterCleanup
    /\ frames' = framesAfterCleanup
    /\ hands' = handsAfterCleanup
    /\ stream' = streamAfterCleanup
    /\ videoRef' = Null
    /\ event' = [op |-> "cleanup", run |-> Len(mounted)]
    /\ UNCHANGED <<state, handsRef, animationRef, streamRef, pc, sendTo>>
    /\ UNCHANGED besideHook

\* a step of run e that the browser takes sooner or later
Settles(e) ==
    /\ e <= Len(pc)
    /\ \/ ImportResolved(e)
       \/ GetUserMediaResolved(e)
       \/ PlayResolved(e)
       \/ SendSettled(e)
       \/ AnimationFrame(e)

NextTrack ==
    \/ \E e \in 1..Len(pc) : ImportResolved(e)
    \/ \E e \in 1..Len(pc) : GetUserMediaResolved(e)
    \/ \E e \in 1..Len(pc) : PlayResolved(e)
    \/ \E e \in 1..Len(pc) : Rejected(e)
    \/ \E e \in 1..Len(pc), landmarks \in Frames : Results(e, landmarks)
    \/ \E e \in 1..Len(pc) : SendSettled(e)
    \/ \E e \in 1..Len(pc) : AnimationFrame(e)
    \/ DependencyChange
    \/ Unmount

\* the hook in a page that is left in the end: the component is unmounted,
\* and no promise and no animation frame stays pending for ever
SpecTrack ==
    /\ InitStore
    /\ [][NextTrack]_vars
    /\ WF_vars(Unmount)
    /\ \A e \in 1..MaxEffects : WF_vars(Settles(e))

Next == NextStore \/ NextEncode \/ NextDemo \/ NextTrack

Spec == Init /\ [][Next]_vars

-----------------------------------------------------------------------------
(* Properties *)

\* the recognizer after a step
ThisAfter == Recognizer(dim', numBins', threshold', featureHVs', classes', rng')

\* a state object that the serializer's contract rejects: a top-level field
\* is missing, or a class has a prototype whose length is not dim
InvalidState(data) ==
    \/ {"dim", "numBins", "threshold", "classes"} \ DOMAIN data # {}
    \/ \E i \in 1..Len(data.classes) : Len(data.classes[i].value.prototype) # data.dim

\* C1: import of an invalid state (a missing top-level field, or a class
\* whose prototype length differs from dim) fails with InvalidState and
\* leaves dim, numBins, threshold and the class table as they were.
C1_InvalidImportRejected ==
    [][(last'.op = "import" /\ InvalidState(last'.data))
          => /\ last'.error # "none"
             /\ UNCHANGED <<dim, numBins, threshold, classes>>]_vars

\* the similarities of a prediction as a mapping from name to value
SimilarityMap(result) ==
    {<<result.similarities[i].name, result.similarities[i].sim>> :
        i \in 1..Len(result.similarities)}

\* a second recognizer, on which import(export()) of this one is called
Reimported == importInto(NewRecognizer(D, 4, Quarter, 42), export(This))

\* C2: a second recognizer that imports the exported state of this one
\* returns from predict, for every hypervector, the same label, the same
\* similarities map and the same confidence as this one.
C2_RoundTripPreservesPredict ==
    \A hv \in Bipolar(dim) :
        /\ predict(Reimported, hv).prediction = predict(This, hv).prediction
        /\ SimilarityMap(predict(Reimported, hv)) = SimilarityMap(predict(This, hv))
        /\ predict(Reimported, hv).confidence = predict(This, hv).confidence

\* the class of a name in a class store
ClassOf(cls, name) == cls[CHOOSE i \in 1..Len(cls) : cls[i].name = name]

\* C3: prototype additivity.  addExample(name, H) on a class that does not
\* exist creates it with prototype H and example count 1 and returns 1; on
\* a class with prototype P (of length dim) and count c it leaves prototype
\* P + H and count c + 1 and returns c + 1; addExample on another name and
\* predict leave the class as it is.  Hence after k calls on a new class the
\* prototype is H1 + ... + Hk, the count is k and the i-th call returned i.
C3_PrototypeAdditivity ==
    [][/\ last'.op = "addExample" =>
            LET name == toUpperCase(last'.gestureName)
                hv == last'.hv
            IN  /\ \E i \in 1..Len(classes') : classes'[i].name = name
                /\ IF \E i \in 1..Len(classes) : classes[i].name = name
                   THEN Len(ClassOf(classes, name).prototype) = dim =>
                        /\ ClassOf(classes', name).prototype =
                              [i \in 1..dim |-> ClassOf(classes, name).prototype[i] + hv[i]]
                        /\ ClassOf(classes', name).exampleCount =
                              ClassOf(classes, name).exampleCount + 1
                        /\ last'.ret = ClassOf(classes, name).exampleCount + 1
                   ELSE /\ ClassOf(classes', name).prototype = hv
                        /\ ClassOf(classes', name).exampleCount = 1
                        /\ last'.ret = 1
                /\ \A i \in 1..Len(classes) :
                      classes[i].name # name =>
                          /\ \E j \in 1..Len(classes') : classes'[j].name = classes[i].name
                          /\ ClassOf(classes', classes[i].name) = classes[i]
       /\ last'.op = "predict" => classes' = classes]_vars

\* a second example was added to one class while another class exists
C3_Witness ==
    /\ last.op = "addExample"
    /\ last.ret = 2
    /\ Len(classes) = 2
    /\ \E i \in 1..2 :
          /\ classes[i].name = toUpperCase(last.gestureName)
          /\ classes[i].exampleCount = 2
          /\ classes[i].prototype # last.hv

\* two names that differ in letter case only
SameLetters(n1, n2) ==
    /\ Len(n1) = Len(n2)
    /\ \A i \in 1..Len(n1) :
          \/ n1[i] = n2[i]
          \/ \E k \in 1..26 : {n1[i], n2[i]} = {LowerLetters[k], UpperLetters[k]}

\* C4: case insensitivity.  For names that differ in letter case only,
\* addExample, getExampleCount and removeGesture act on the same class; after
\* addExample("thumbs_up", H) on an empty recognizer getExampleCount("THUMBS_UP")
\* is 1, getClassNames() is ["THUMBS_UP"] and removeGesture removes the class
\* under either spelling.
C4_CaseInsensitive ==
    /\ \A n1 \in GestureNames, n2 \in GestureNames :
          SameLetters(n1, n2) =>
              /\ getExampleCount(This, n1) = getExampleCount(This, n2)
              /\ removeGestureClasses(This, n1) = removeGestureClasses(This, n2)
              /\ removeGestureReturn(This, n1) = removeGestureReturn(This, n2)
              /\ \A hv \in ExampleHVs(dim) :
                    /\ addExampleClasses(This, n1, hv) = addExampleClasses(This, n2, hv)
                    /\ addExampleReturn(This, n1, hv) = addExampleReturn(This, n2, hv)
    /\ (last.op = "addExample" /\ last.gestureName = thumbs_up
            /\ last.ret = 1 /\ Len(classes) = 1) =>
          /\ getExampleCount(This, THUMBS_UP) = 1
          /\ getClassNames(This) = <<THUMBS_UP>>
          /\ removeGestureReturn(This, thumbs_up)
          /\ removeGestureReturn(This, THUMBS_UP)
          /\ removeGestureClasses(This, thumbs_up) = <<>>
          /\ removeGestureClasses(This, THUMBS_UP) = <<>>

\* addExample("thumbs_up", H) was called on an empty recognizer
C4_Witness ==
    /\ last.op = "addExample"
    /\ last.gestureName = thumbs_up
    /\ last.ret = 1
    /\ Len(classes) = 1

\* the values of a similarities list
SimilarityValues(similarities) ==
    {similarities[i].sim : i \in 1..Len(similarities)}

\* the best similarity of a list: the greatest of its values that are
\* numbers, -Infinity when there is none
BestSimilarity(similarities) ==
    IF \A v \in SimilarityValues(similarities) : v.k = "nan" THEN NegInfinity
    ELSE CHOOSE v \in SimilarityValues(similarities) :
             /\ v.k # "nan"
             /\ \A w \in SimilarityValues(similarities) : ~Gt(w, v)

SimilarityOf(result, name) ==
    result.similarities[CHOOSE i \in 1..Len(result.similarities) :
                            result.similarities[i].name = name].sim

\* C6: tie-break of predict.  When several classes have the maximal
\* similarity and it is not below the threshold, the label is the one of
\* them that stands first in the insertion order of the class store.
C6_TieBreakEarliestInserted ==
    (last.op = "predict" /\ last.ret.prediction # Null) =>
        \E i \in 1..Len(classes) :
            /\ classes[i].name = last.ret.prediction
            /\ SimilarityOf(last.ret, classes[i].name)
                   = BestSimilarity(last.ret.similarities)
            /\ \A j \in 1..(i - 1) :
                  SimilarityOf(last.ret, classes[j].name)
                      # BestSimilarity(last.ret.similarities)

\* predict chose the earlier of two classes of equal, maximal similarity
C6_Witness ==
    /\ last.op = "predict"
    /\ last.ret.prediction # Null
    /\ \E i \in 1..Len(classes), j \in 1..Len(classes) :
          /\ i < j
          /\ classes[i].name = last.ret.prediction
          /\ SimilarityOf(last.ret, classes[j].name)
                 = BestSimilarity(last.ret.similarities)

\* C7: encodeLandmarks with a landmark array whose length is not 21 signals
\* an error to the caller and changes neither the class store, nor the
\* configuration, nor the item memory.
C7_LandmarkCountChecked ==
    [][(last'.op = "encodeLandmarks" /\ Len(last'.landmarks) # 21)
          => /\ last'.error # "none"
             /\ UNCHANGED <<dim, numBins, threshold, classes, featureHVs>>]_vars

\* a pose whose hand size, the distance from the wrist to the middle MCP, is
\* below 1e-6
HandSizeZero(landmarks) ==
    /\ HasIndex(landmarks, MIDDLE_MCP)
    /\ Dist2(At(landmarks, WRIST), At(landmarks, MIDDLE_MCP)) = 0

\* the bins quantize(0, lo_i, hi_i) of the features i in 0..47
ZeroBins48 ==
    [i \in 1..48 |-> quantize(This, Zero, minValOf(i - 1), maxValOf(i - 1))]

\* C8: degenerate pose.  When the hand size is below 1e-6 the feature
\* extractor returns a zero vector of exactly 48 features, and the
\* hypervector encodeLandmarks returns is the bundling and binarizing of
\* exactly the 48 item-memory entries (i, quantize(0, lo_i, hi_i)), i in 0..47.
C8_DegeneratePoseHas48Features ==
    (last.op = "encodeLandmarks" /\ last.error = "none"
        /\ HandSizeZero(last.landmarks)) =>
        /\ Len(extractFeatures(last.landmarks)) = 48
        /\ \A i \in 1..Len(extractFeatures(last.landmarks)) :
              extractFeatures(last.landmarks)[i] = Zero
        /\ bundleKeys(binsOf(This, extractFeatures(last.landmarks)))
               = bundleKeys(ZeroBins48)
        /\ last.ret = bundle(This, ZeroBins48)

\* C9: clearAll empties the class store (getClassNames() is empty and
\* getExampleCount is 0 for every name) and leaves dim, numBins, threshold and
\* the item memory unchanged, so that encoding the same landmarks before and
\* after clearAll yields equal hypervectors.
C9_ClearAllKeepsItemMemory ==
    [][last'.op = "clearAll" =>
          /\ getClassNames(ThisAfter) = <<>>
          /\ \A name \in GestureNames : getExampleCount(ThisAfter, name) = 0
          /\ UNCHANGED <<dim, numBins, threshold, featureHVs>>
          /\ \A bins \in {BinTable[numBins][landmarks] : landmarks \in EncodablePoses} :
                /\ bundle(ThisAfter, bins) = bundle(This, bins)
                /\ bundleMemory(ThisAfter, bins) = bundleMemory(This, bins)]_vars

\* clearAll was called on a recognizer whose item memory holds hypervectors
C9_Witness ==
    /\ last.op = "clearAll"
    /\ classes = <<>>
    /\ DOMAIN featureHVs # {}

\* a class store without the classes of one name, the others in their order
WithoutClass(cls, name) == SelectSeq(cls, LAMBDA c : c.name # name)

\* C10: removeGesture(name) removes exactly the one class whose canonical
\* name matches and returns true, and leaves every other class's prototype,
\* example count and place in the insertion order as they are; when there
\* is no such class it returns false and changes nothing.
C10_RemoveGestureRemovesOne ==
    [][last'.op = "removeGesture" =>
          /\ IF \E i \in 1..Len(classes) : classes[i].name = toUpperCase(last'.name)
             THEN /\ last'.ret = TRUE
                  /\ classes' = WithoutClass(classes, toUpperCase(last'.name))
                  /\ Len(classes') = Len(classes) - 1
             ELSE /\ last'.ret = FALSE
                  /\ classes' = classes
          /\ UNCHANGED <<dim, numBins, threshold, featureHVs>>]_vars

\* removeGesture removed one class and left two or more
C10_Witness ==
    /\ last.op = "removeGesture"
    /\ last.ret = TRUE
    /\ Len(classes) >= 2

\* what predict returns on an empty class store: (null, {}, 0)
EmptyPrediction == [prediction |-> Null, similarities |-> <<>>, confidence |-> Zero]

\* C11: whenever the class store is empty (fresh recognizer, after clearAll,
\* after the removal of the last class, after the import of a state without
\* classes), predict(hv) returns the label null, an empty similarities map and
\* the confidence 0 for every hv, and raises no error.
C11_EmptyStorePredictsNull ==
    classes = <<>> =>
        /\ \A hv \in Bipolar(dim) : predict(This, hv) = EmptyPrediction
        /\ last.op = "predict" => last.ret = EmptyPrediction

\* predict was called on the empty class store that the import of a state
\* without classes left
C11_Witness ==
    /\ last.op = "predict"
    /\ classes = <<>>
    /\ dim # D

\* C12: predict is pure with respect to the recognizer's state.  A call
\* predict(hv) changes neither the configuration, nor the classes (their set,
\* order, prototypes and example counts), nor the item memory, so that a
\* second predict(hv) right after it returns an equal result.
C12_PredictIsPure ==
    [][last'.op = "predict" =>
          /\ UNCHANGED <<dim, numBins, threshold, classes, featureHVs>>
          /\ last'.ret = predict(This, last'.hv)
          /\ predict(ThisAfter, last'.hv) = last'.ret]_vars

\* predict returned a label on a recognizer that holds classes and an item
\* memory
C12_Witness ==
    /\ last.op = "predict"
    /\ last.ret.prediction # Null
    /\ classes # <<>>
    /\ DOMAIN featureHVs # {}

\* C13: in every state reachable by addExample, removeGesture, clearAll and
\* import, the prototype of every class of the class store has the length dim.
C13_PrototypeLengthIsDim ==
    \A i \in 1..Len(classes) : Len(classes[i].prototype) = dim

\* C14: in every state reachable by addExample, removeGesture, clearAll and
\* import, every class of the class store has an example count of 1 or more.
C14_ExampleCountPositive ==
    \A i \in 1..Len(classes) : classes[i].exampleCount >= 1

\* the bundled sum at position j (from 0) of the encoding just returned: the
\* sum of the elements j of the item-memory entries of its features' bins
BundledSum(j) ==
    LET bins == BinTable[numBins][last.landmarks]
    IN  Accumulated([i \in 1..Len(bins) |-> featureHVs[FeatureKey(i - 1, bins[i])]], j)

\* C15: every hypervector encodeLandmarks returns has the length dim and
\* elements that are -1 or +1; an element is +1 exactly when the bundled sum
\* at its position is >= 0 (a sum of zero gives +1) and -1 otherwise.
C15_EncodingIsBipolar ==
    (last.op = "encodeLandmarks" /\ last.error = "none") =>
        /\ Len(last.ret) = dim
        /\ \A j \in 1..dim :
              /\ last.ret[j] \in {-1, 1}
              /\ last.ret[j] = 1 <=>
                    (BundledSum(j - 1).k = "num" /\ BundledSum(j - 1).s >= 0)

\* encodeLandmarks returned +1 at a position where the bundled sum is zero
C15_Witness ==
    /\ last.op = "encodeLandmarks"
    /\ last.error = "none"
    /\ \E j \in 1..dim : BundledSum(j - 1) = Zero /\ last.ret[j] = 1

\* the hypervector of a key under a dim: dim bipolar draws of a generator
\* seeded with feature_index * 1000 + bin_index + 12345
KeyHV(d, key) == bipolarDraws(SeededRandom(key[1] * 1000 + key[2] + 12345), d)

\* C16: item-memory determinism.  The hypervector the item memory assigns to
\* a key (feature_index, bin_index) is a function of dim and the key alone: it
\* depends neither on the constructor's seed, nor on the order in which the
\* keys were first requested, nor on the addExample, predict and clearAll
\* calls made meanwhile; and an entry, once assigned, never changes.
C16_ItemMemoryDeterministic ==
    [][/\ \A key \in DOMAIN featureHVs :
            /\ key \in DOMAIN featureHVs'
            /\ featureHVs'[key] = featureHVs[key]
       /\ \A key \in DOMAIN featureHVs' \ DOMAIN featureHVs :
            featureHVs'[key] = KeyHV(dim, key)
       /\ \A featureIdx \in 0..47, binVal \in 0..(numBins - 1) :
            ~(FeatureKey(featureIdx, binVal) \in DOMAIN featureHVs) =>
                getFeatureHV(This, featureIdx, binVal)
                    = KeyHV(dim, FeatureKey(featureIdx, binVal))]_vars

\* a recognizer constructed with the seed 7 holds classes and the entries of
\* two poses, assigned in either order
C16_Witness ==
    /\ rng = SeededRandom(7)
    /\ classes # <<>>
    /\ Cardinality(DOMAIN featureHVs) > 100

\* a recognizer freshly constructed with a dim and a numBins
FreshRecognizer(d, nb) == Recognizer(d, nb, threshold', <<>>, <<>>, rng')

\* C17: import resets the item memory.  After a successful import(state), also
\* on a recognizer that has encoded poses under another dim or numBins,
\* encodeLandmarks(L) returns the hypervector that a freshly constructed
\* recognizer of dim state.dim and numBins state.numBins returns for L.
C17_ImportResetsItemMemory ==
    [][(last'.op = "import" /\ last'.error = "none") =>
          \A landmarks \in EncodablePoses :
              bundle(ThisAfter, BinTable[numBins'][landmarks])
                  = bundle(FreshRecognizer(dim', numBins'), BinTable[numBins'][landmarks])]_vars

\* C18: the class names are canonical in every reachable state.  After any
\* sequence of addExample, removeGesture, clearAll and import every key of the
\* class store is its own uppercase form, so that getExampleCount finds, and
\* removeGesture removes, every class under the name getClassNames() lists.
C18_ClassNamesUppercase ==
    \A i \in 1..Len(getClassNames(This)) :
        LET name == getClassNames(This)[i]
        IN  /\ name = toUpperCase(name)
            /\ getExampleCount(This, name) = classes[i].exampleCount
            /\ removeGestureReturn(This, name)

\* C19: the item memory never holds more than 48 * numBins entries, and every
\* key (feature_index, bin_index) it holds has 0 <= feature_index < 48 and
\* 0 <= bin_index < numBins, after any sequence of encodeLandmarks calls
\* (degenerate poses included) and imports.
C19_ItemMemoryBounded ==
    /\ Cardinality(DOMAIN featureHVs) <= 48 * numBins
    /\ \A key \in DOMAIN featureHVs :
          /\ 0 <= key[1] /\ key[1] < 48
          /\ 0 <= key[2] /\ key[2] < numBins

\* the quantization range (lo, hi) of the feature index i: (0, 3) for 0-9,
\* (-2, 2) for 10-19, (0, 1) for 20-24, (-1, 1) for the depth features 39-43,
\* (0, 3) for the others
DepthFeatureRange(i) ==
    IF i >= 10 /\ i <= 19 THEN <<-2, 2>>
    ELSE IF i >= 20 /\ i <= 24 THEN <<0, 1>>
    ELSE IF i >= 39 /\ i <= 43 THEN <<-1, 1>>
    ELSE <<0, 3>>

\* C20: encodeLandmarks quantizes the feature of index i over the range (0, 3)
\* for i in 0-9, (-2, 2) for 10-19, (0, 1) for 20-24, (-1, 1) for exactly the
\* depth features 39-43, and (0, 3) for the remaining indices 25-38 and 44-47.
C20_QuantizationRanges ==
    (last.op = "encodeLandmarks" /\ last.error = "none") =>
        \A i \in 0..47 :
            /\ <<minValOf(i), maxValOf(i)>> = DepthFeatureRange(i)
            /\ BinTable[numBins][last.landmarks][i + 1]
                   = quantize(This, extractFeatures(last.landmarks)[i + 1],
                              DepthFeatureRange(i)[1], DepthFeatureRange(i)[2])

\* C21: every similarity that predict returns lies in [-1, 1], and it is 0
\* for a class whose prototype has norm 0.  The query is a bipolar
\* hypervector of the current dimension and every prototype is a sum of such
\* hypervectors added by addExample.
C21_SimilarityInUnitInterval ==
    (last.op = "predict" /\ Len(last.hv) = dim /\ last.hv \in Bipolar(dim)) =>
        \A i \in 1..Len(classes) :
            Len(classes[i].prototype) = dim =>
                LET sim == last.ret.similarities[i].sim
                IN  /\ sim.k # "nan"
                    /\ ~Gt(sim, One)
                    /\ ~Lt(sim, Negated(One))
                    /\ (\A j \in 1..dim : classes[i].prototype[j] = 0) => sim = Zero

\* C22: class order survives a round trip.  For a class store built by
\* addExample and removeGesture on a constructed recognizer, a second
\* recognizer that imports the exported state returns from getClassNames()
\* the same names in the same order.
C22_RoundTripPreservesClassOrder ==
    (/\ dim = D /\ numBins = 4 /\ threshold = Quarter
     /\ \A i \in 1..Len(classes) : classes[i].name \in {THUMBS_UP, Two}) =>
        getClassNames(Reimported) = getClassNames(This)

-----------------------------------------------------------------------------
(* Claims about the component GestureDemo *)

\* C23: whenever the mode is 'recognition', the gestureNames list of the
\* component equals getClassNames() of its recognizer, after any sequence of
\* start-training, confirm-name, capture, cancel-training and clear-all
\* events: the recognizer has no class the component does not list.
C23_GestureNamesAreClassNames ==
    mode = "recognition" => gestureNames = getClassNames(This)

\* C24: an example is added to the recognizer only while mode is 'training'
\* and landmarks are present; a capture adds exactly one example, under the
\* confirmed gesture name; and a capture completes the session (the mode
\* returns to 'recognition') exactly when it is the REQUIRED_EXAMPLES-th
\* capture of that session, whatever sessions came before for the same name.
C24_TrainingSessionProtocol ==
    [][/\ (\E i \in 1..Len(classes') :
              classes'[i].exampleCount > getExampleCount(This, classes'[i].name)) =>
          /\ mode = "training"
          /\ currentLandmarks # Null
          /\ last'.op = "captureExample"
       /\ last'.op = "captureExample" =>
          /\ getExampleCount([This EXCEPT !.classes = classes'], trainingState.gestureName)
                 = getExampleCount(This, trainingState.gestureName) + 1
          /\ \A i \in 1..Len(classes) :
                 classes[i].name # trainingState.gestureName =>
                     classes'[i] = classes[i]
          /\ captured' = captured + 1
          /\ (mode' = "recognition") = (captured' = REQUIRED_EXAMPLES)
      ]_vars

-----------------------------------------------------------------------------
(* Claims about the hook useHandTracking *)

\* every MediaStream that getUserMedia returned has its tracks stopped in the end
StreamsStopped ==
    \A e \in 1..MaxEffects :
        (e <= Len(stream) /\ stream[e] = "live") ~> (e <= Len(stream) /\ stream[e] = "stopped")

\* every Hands instance that was created is closed in the end
HandsClosed ==
    \A e \in 1..MaxEffects :
        (e <= Len(hands) /\ hands[e] = "open") ~> (e <= Len(hands) /\ hands[e] = "closed")

\* the code of a run whose cleanup has run sets no state and calls no onFrame
SilentAfterCleanup ==
    [][event'.op \in {"setState", "onFrame"} => mounted[event'.run]]_vars

\* the code of a run whose cleanup has run requests no animation frame
NoFrameAfterCleanup ==
    [][event'.op = "requestAnimationFrame" => mounted[event'.run]]_vars

\* C25: however the cleanup of the effect (unmount or dependency change)
\* interleaves with the import, getUserMedia and video.play(), every stream
\* acquired is stopped in the end, every Hands instance created is closed in
\* the end, and after the cleanup of a run its code issues no onFrame and no
\* state update and requests no further animation frame.
C25_TrackerReleased ==
    /\ StreamsStopped
    /\ HandsClosed
    /\ SilentAfterCleanup
    /\ NoFrameAfterCleanup

=============================================================================
